---- MODULE Spec2Model ----
(***************************************************************************)
(* FDA recognised-standards catalog: the synchronisation of crawled        *)
(* records into the fda_standards table (fda_db_operations.py), and the    *)
(* artifact pipeline that renders and uploads a PDF and an HTML object per *)
(* catalog entry (pdf_html_generator.py, s3_operations.py), driven by      *)
(* main.py.                                                                *)
(*                                                                         *)
(* Strings are sequences of one-character strings; a few fixed literals of *)
(* the code ("FDA_STANDARDS/", ".pdf", ...) are kept as one element each.  *)
(***************************************************************************)
EXTENDS Naturals, Sequences, FiniteSets, TLC

\* ------------------------------------------------------------------ bounds
MaxBatch == 2      \* rows in one sync input
MaxCatalog == 2    \* rows of the fda_standards table
MaxRows == 3       \* tr rows of one page of the listing
MaxRecords == 5    \* records of the listing
PageSize == 2      \* records per page: the 500 of scraper.py, scaled

\* ------------------------------------------------------------ text helpers
Min(a, b) == IF a <= b THEN a ELSE b
Max(a, b) == IF a >= b THEN a ELSE b

BoundedSeq(S, n) == UNION {[1..k -> S] : k \in 0..n}

\* str.replace / re.sub of single characters: every character of `s` that is
\* in `bad` becomes "_".
ReplaceChars(s, bad) == [i \in DOMAIN s |-> IF s[i] \in bad THEN "_" ELSE s[i]]

Whitespace == {" ", "\n", "\r", "\t"}

RECURSIVE LStrip(_)
LStrip(s) == IF s # <<>> /\ Head(s) \in Whitespace THEN LStrip(Tail(s)) ELSE s

RECURSIVE RStrip(_)
RStrip(s) ==
    IF s # <<>> /\ s[Len(s)] \in Whitespace THEN RStrip(SubSeq(s, 1, Len(s) - 1)) ELSE s

\* str.strip()
Strip(s) == RStrip(LStrip(s))

\* str.split(): the maximal runs of non-whitespace characters, in order.
RECURSIVE SplitFrom(_, _, _)
SplitFrom(s, i, word) ==
    IF i > Len(s) THEN (IF word = <<>> THEN <<>> ELSE <<word>>)
    ELSE IF s[i] \in Whitespace
         THEN (IF word = <<>> THEN <<>> ELSE <<word>>) \o SplitFrom(s, i + 1, <<>>)
         ELSE SplitFrom(s, i + 1, Append(word, s[i]))

Split(s) == SplitFrom(s, 1, <<>>)

\* '_'.join(words)
RECURSIVE JoinUnderscore(_)
JoinUnderscore(words) ==
    IF words = <<>> THEN <<>>
    ELSE IF Len(words) = 1 THEN words[1]
    ELSE words[1] \o <<"_">> \o JoinUnderscore(Tail(words))

\* ----------------------------------------------------------------- records
NULL == <<"NULL">>          \* Python None / SQL NULL

KeyColumns ==
    {"recognition_number", "standards_developing_organization",
     "standard_designation_number_and_date"}

AllColumns == KeyColumns \cup {"standard_title", "title_link"}

Rec(rn, sdo, des, title, link) ==
    [recognition_number |-> rn,
     standards_developing_organization |-> sdo,
     standard_designation_number_and_date |-> des,
     standard_title |-> title,
     title_link |-> link]

\* The crawled records the model draws its inputs from.  RecA and RecB differ
\* in identity but have the same recognition number and title; RecB and RecC
\* differ in identity and both have no anchor (title_link = "").
RecA == Rec(<<"1">>, <<"a">>, <<"x">>, <<"T">>, <<"u">>)
RecB == Rec(<<"1">>, <<"b">>, <<"x">>, <<"T">>, <<>>)
RecC == Rec(<<"2">>, <<"a">>, <<"x">>, <<"S", "/", "1">>, <<>>)

Records == {RecA, RecB, RecC}

\* A DataFrame: its columns and its rows.  The crawl always returns every
\* column; a direct caller of the sync may pass a frame that lacks one.
ScrapedFrames ==
    {[columns |-> AllColumns, rows |-> rs] : rs \in BoundedSeq(Records, MaxBatch)}

Frames ==
    ScrapedFrames \cup
    {[columns |-> AllColumns \ {k}, rows |-> rs] :
        k \in KeyColumns, rs \in {<<RecA>>, <<RecA, RecB>>}}

\* ---------------------------------------------------------------- identity
\* hashlib.md5(...).hexdigest(), taken as injective on its input.
Md5(s) == s

\* An identity made without the separator.
generate_unique_id_without_separator(rn, sdo, des) == Md5(rn \o sdo \o des)

generate_unique_id(rn, sdo, des) == Md5(rn \o <<"|">> \o sdo \o <<"|">> \o des)

\* An identity made of the title as well.
UniqueIdOf_with_title(r) ==
    Md5(r.recognition_number \o <<"|">> \o r.standards_developing_organization
        \o <<"|">> \o r.standard_designation_number_and_date
        \o <<"|">> \o r.standard_title)

UniqueIdOf(r) ==
    generate_unique_id(r.recognition_number,
                       r.standards_developing_organization,
                       r.standard_designation_number_and_date)

\* ------------------------------------------------------------------- state
VARIABLES
    catalog,      \* the fda_standards table: a sequence of rows, in insert order
    uniqueKey,    \* whether the table's schema declares unique_id UNIQUE
    use_s3,       \* FDAStandardsProcessor.use_s3
    objects,      \* the keys of the objects in the S3 bucket
    files,        \* the local artifact files the running process has written and
                  \* not removed (a file left by an earlier process is
                  \* overwritten before it is read)
    mpc,          \* where main() / run_full_pipeline() stands
    scraped_df,   \* the frame the crawl of this run returned
    tasks,        \* the futures of process_unprocessed_standards, in submit order
    max_workers,  \* the size of the thread pool
    healthy,      \* the environment: TRUE once its calls no longer fail
    h_sync,       \* the last insert_new_standards call, for the sync claims
    h_run,        \* what the last process_unprocessed_standards call returned with,
                  \* or that reset_s3_paths has cleared the table since; and
                  \* what run_full_pipeline returned, once it has
    crawl,        \* the locals of a running scrape_fda_standards call
    parse,        \* one extract_table_rows call: its arguments and its result
    call          \* one call of another pure function: its arguments and its result

vars ==
    <<catalog, uniqueKey, use_s3, objects, files, mpc, scraped_df, tasks,
      max_workers, healthy, h_sync, h_run, crawl, parse, call>>

NoSync == [op |-> "none"]
NoRun == [op |-> "none", result |-> "none"]
NoFrame == [columns |-> AllColumns, rows |-> <<>>]
NoCrawl == [pc |-> "idle"]
NoParse == [pc |-> "idle"]
NoCall == [pc |-> "idle"]

\* --------------------------------------------------------- CatalogSynchronizer
existing_ids(cat) == {cat[i].unique_id : i \in DOMAIN cat}

WithUniqueId(rows) ==
    [i \in DOMAIN rows |->
        [unique_id |-> UniqueIdOf(rows[i]),
         recognition_number |-> rows[i].recognition_number,
         standard_title |-> rows[i].standard_title,
         title_link |-> rows[i].title_link]]

NewRecords(rows, existing) ==
    SelectSeq(WithUniqueId(rows), LAMBDA r : r.unique_id \notin existing)

\* A check_duplicates that went on without looking for the key columns.
check_duplicates_without_column_check(df, cat, readOk) ==
    IF df.rows = <<>> THEN <<>>
    ELSE IF ~readOk THEN <<>>
    ELSE NewRecords(df.rows, existing_ids(cat))

\* check_duplicates: the rows of df whose unique_id is not among the ids read
\* from the table at the start of the call; empty on an empty frame, a missing
\* key column or a failed read.
check_duplicates(df, cat, readOk) ==
    IF df.rows = <<>> THEN <<>>
    ELSE IF KeyColumns \ df.columns # {} THEN <<>>
    ELSE IF ~readOk THEN <<>>
    ELSE NewRecords(df.rows, existing_ids(cat))

NewRow(r) ==
    [unique_id |-> r.unique_id,
     recognition_number |-> r.recognition_number,
     standard_title |-> r.standard_title,
     title_link |-> r.title_link,
     aws_key |-> NULL,
     aws_html_key |-> NULL]

\* A UNIQUE index on unique_id rejects the whole multi-row insert when it
\* would leave two rows with one unique_id.
ViolatesUniqueKey(cat, rows) ==
    \/ \E i \in DOMAIN rows : rows[i].unique_id \in existing_ids(cat)
    \/ \E i, j \in DOMAIN rows : i # j /\ rows[i].unique_id = rows[j].unique_id

\* insert_new_standards: <<success, rows appended>>.
insert_new_standards(df, cat, unique, readOk, writeOk) ==
    LET new_df == check_duplicates(df, cat, readOk)
        rows == [i \in DOMAIN new_df |-> NewRow(new_df[i])]
    IN  IF new_df = <<>> THEN <<TRUE, <<>>>>
        ELSE IF ~writeOk \/ (unique /\ ViolatesUniqueKey(cat, rows)) THEN <<FALSE, <<>>>>
        ELSE <<TRUE, rows>>

\* -------------------------------------------------------- PersistentStore
IsUnset(v) == v = NULL \/ v = <<>>

\* The WHERE clause of get_unprocessed_standards.
Unprocessed(row) == IsUnset(row.aws_key) \/ IsUnset(row.aws_html_key)

\* A count of the rows with either key set.
Complete_with_either_key(row) == ~IsUnset(row.aws_key) \/ ~IsUnset(row.aws_html_key)

\* The WHERE clause of get_sync_status' db_processed count.
Complete(row) == ~IsUnset(row.aws_key) /\ ~IsUnset(row.aws_html_key)

S3Prefix == <<"FDA_STANDARDS/">>

\* The file name get_unprocessed_standards derives for a row: the recognition
\* number, "_", the first three words of the title joined by "_" with "/" and
\* "\" replaced, and the extension.
FileName(row, ext) ==
    LET words == Split(row.standard_title)
        first3 == SubSeq(words, 1, Min(3, Len(words)))
    IN  row.recognition_number \o <<"_">>
            \o ReplaceChars(ReplaceChars(JoinUnderscore(first3), {"/"}), {"\\"})
            \o <<ext>>

\* A query that returned the first unprocessed row alone (LIMIT 1).
get_unprocessed_standards_first_row(cat, readOk) ==
    IF ~readOk THEN <<>>
    ELSE LET idx == SelectSeq([i \in DOMAIN cat |-> i], LAMBDA i : Unprocessed(cat[i]))
             first == SubSeq(idx, 1, Min(1, Len(idx)))
         IN  [k \in DOMAIN first |->
                [row |-> first[k],
                 recognition_number |-> cat[first[k]].recognition_number,
                 standard_title |-> cat[first[k]].standard_title,
                 title_link |-> cat[first[k]].title_link,
                 unique_id |-> cat[first[k]].unique_id,
                 pdf_filename |-> FileName(cat[first[k]], ".pdf"),
                 html_filename |-> FileName(cat[first[k]], ".html")]]

\* get_unprocessed_standards: the rows with an artifact-location field unset,
\* each with its two file names; empty when the query fails.  `row` is the
\* position of the row in the table, kept for the claims.
get_unprocessed_standards(cat, readOk) ==
    IF ~readOk THEN <<>>
    ELSE LET idx == SelectSeq([i \in DOMAIN cat |-> i], LAMBDA i : Unprocessed(cat[i]))
         IN  [k \in DOMAIN idx |->
                [row |-> idx[k],
                 recognition_number |-> cat[idx[k]].recognition_number,
                 standard_title |-> cat[idx[k]].standard_title,
                 title_link |-> cat[idx[k]].title_link,
                 unique_id |-> cat[idx[k]].unique_id,
                 pdf_filename |-> FileName(cat[idx[k]], ".pdf"),
                 html_filename |-> FileName(cat[idx[k]], ".html")]]

\* The rows an UPDATE ... WHERE title_link = :url matches.
MatchedRows(cat, url) == {i \in DOMAIN cat : cat[i].title_link = url}

\* An UPDATE that set aws_key and left aws_html_key as it was.
update_s3_paths_pdf_only(cat, url, pdf_filename, html_filename, dbOk) ==
    IF ~dbOk THEN <<FALSE, cat>>
    ELSE <<{i \in DOMAIN cat : cat[i].title_link = url} # {},
           [i \in DOMAIN cat |->
               IF cat[i].title_link = url
               THEN [cat[i] EXCEPT !.aws_key = <<"FDA_STANDARDS/", "PDF/">> \o pdf_filename]
               ELSE cat[i]]>>

\* update_s3_paths: <<returned value, the table after the call>>.  A failed
\* statement changes nothing and returns False, as does an UPDATE that
\* matches no row.
update_s3_paths(cat, url, pdf_filename, html_filename, dbOk) ==
    IF ~dbOk THEN <<FALSE, cat>>
    ELSE <<MatchedRows(cat, url) # {},
           [i \in DOMAIN cat |->
               IF cat[i].title_link = url
               THEN [cat[i] EXCEPT !.aws_key = S3Prefix \o <<"PDF/">> \o pdf_filename,
                                   !.aws_html_key = S3Prefix \o <<"HTML/">> \o html_filename]
               ELSE cat[i]]>>

\* An UPDATE that set aws_key = NULL only.
reset_s3_paths_of_the_pdf_only(cat, dbOk) ==
    IF ~dbOk THEN cat
    ELSE [i \in DOMAIN cat |-> [cat[i] EXCEPT !.aws_key = NULL]]

\* reset_s3_paths: every row's two fields become NULL, unless the statement fails.
reset_s3_paths(cat, dbOk) ==
    IF ~dbOk THEN cat
    ELSE [i \in DOMAIN cat |-> [cat[i] EXCEPT !.aws_key = NULL, !.aws_html_key = NULL]]

\* get_sync_status.
get_sync_status(cat) ==
    LET db_total == Len(cat)
        db_processed == Cardinality({i \in DOMAIN cat : Complete(cat[i])})
    IN  [db_total |-> db_total, db_processed |-> db_processed,
         pending |-> db_total - db_processed]

\* ------------------------------------------------------ FDAStandardsProcessor
\* sanitize_filename: the characters < > : " / \ | ? * and the line breaks
\* become "_", then the name is stripped.
sanitize_filename(filename) ==
    Strip(ReplaceChars(ReplaceChars(filename,
                                    {"<", ">", ":", "\"", "/", "\\", "|", "?", "*"}),
                       {"\n", "\r"}))

\* S3Operations.prefix
prefix == <<"FDA_STANDARDS/">>

pdf_s3_key(t) == prefix \o <<"PDF/">> \o t.pdf_filename
html_s3_key(t) == prefix \o <<"HTML/">> \o t.html_filename

\* os.path.join(self.pdf_path, filename), os.path.join(self.html_path, filename)
pdf_local_path(t) == <<"pdf_path/">> \o sanitize_filename(t.pdf_filename)
html_local_path(t) == <<"html_path/">> \o sanitize_filename(t.html_filename)

\* min(8, max(2, os.cpu_count() or 4)); cpu = 0 stands for os.cpu_count() = None.
MaxWorkersOf(cpu) == Min(8, Max(2, IF cpu = 0 THEN 4 ELSE cpu))

CpuCounts == {1, 2}

\* executor.submit(self.process_standard, row) for one row of the frame;
\* process_standard starts with the two sanitised file names.
Submit(row) ==
    [row |-> row.row,
     title_link |-> row.title_link,
     pdf_filename |-> sanitize_filename(row.pdf_filename),
     html_filename |-> sanitize_filename(row.html_filename),
     pc |-> "queued",
     at |-> "queued",
     result |-> FALSE,
     pdf_path |-> NULL,
     html_path |-> NULL,
     skip |-> FALSE,
     fetched |-> FALSE,
     fetch_failed |-> FALSE,
     up_pdf |-> FALSE,
     up_html |-> FALSE,
     wrote |-> FALSE]

Running(ts) == {i \in DOMAIN ts : ts[i].pc \notin {"queued", "done"}}
Queued(ts) == {i \in DOMAIN ts : ts[i].pc = "queued"}
Finished(ts) == {i \in DOMAIN ts : ts[i].pc = "done"}

\* process_standard returning `value`: the future holds the value; the locals
\* of the call are gone.  `at` keeps the statement it returned from.
Return(t, value) ==
    [t EXCEPT !.pc = "done", !.at = t.pc,
              !.result = value, !.pdf_path = NULL, !.html_path = NULL,
              !.skip = FALSE, !.fetched = FALSE, !.up_pdf = FALSE, !.up_html = FALSE]

\* A probe that answered True whenever head_object raised nothing.
file_exists_whatever_the_key(objs, key, outcome) == outcome = "ok"

\* S3Operations.file_exists: head_object finds the object, or a ClientError
\* (a 404 or any other) makes it False.
file_exists(objs, key, outcome) == outcome = "ok" /\ key \in objs

\* What the outcomes of one S3 call can be: it works, botocore raises
\* ClientError (caught in S3Operations), or something else is raised (caught
\* by process_standard's except Exception).
S3Outcomes == {"ok", "client_error", "raise"}

\* ------------------------------------------------------------------ actions
Init ==
    /\ catalog = <<>>
    /\ uniqueKey \in BOOLEAN
    /\ use_s3 \in BOOLEAN
    /\ objects = {}
    /\ files = {}
    /\ mpc = "idle"
    /\ scraped_df = NoFrame
    /\ tasks = <<>>
    /\ max_workers \in {MaxWorkersOf(c) : c \in CpuCounts}
    /\ healthy = FALSE
    /\ h_sync = NoSync
    /\ h_run = NoRun
    /\ crawl = NoCrawl
    /\ parse = NoParse
    /\ call = NoCall

\* What no step of the catalog and pipeline code writes.
Config == <<uniqueKey, use_s3, max_workers, healthy, crawl, parse, call>>

\* What a call to the database, the network or the local disk can do: work or
\* fail; what an S3 call can do.
Oks == IF healthy THEN {TRUE} ELSE BOOLEAN
Outcomes == IF healthy THEN {"ok"} ELSE S3Outcomes

\* The identities of the rows of df that the table does not hold.
FreshIds(df, cat) ==
    IF KeyColumns \ df.columns # {} THEN {}
    ELSE {UniqueIdOf(df.rows[i]) : i \in DOMAIN df.rows} \ existing_ids(cat)

\* What the claims read of one insert_new_standards(df) call: its input and
\* result, whether the database worked (clean; read for the SELECT of
\* check_duplicates alone), the identities that were new
\* to the table when it started (fresh), and whether the call before it was a
\* clean call on the same frame (again).
SyncRecord(df, res, readOk, writeOk) ==
    LET again == h_sync.op = "sync" /\ h_sync.df = df /\ h_sync.clean IN
    [op |-> "sync", df |-> df, ok |-> res[1], n |-> Len(res[2]),
     clean |-> readOk /\ writeOk,
     read |-> readOk,
     fresh |-> FreshIds(df, catalog),
     again |-> again]

\* to_sql with if_exists='replace': the table is the rows of the call.
to_sql_replace(cat, rows) == rows

\* df.to_sql('fda_standards', ..., if_exists='append'): the rows inserted by
\* the call come after the rows of the table; a failed call inserts none.
to_sql(cat, rows) == cat \o rows

\* The record of the last pool, dropped by a new call; that reset_s3_paths has
\* cleared the table is kept until a pool has run.
AfterReset(did) ==
    IF did \/ h_run.op = "reset" THEN [op |-> "reset", result |-> "none"] ELSE NoRun

\* run_full_pipeline returns `value`.
ReturnFromRun(value) == [h_run EXCEPT !.result = value]

\* A direct call of FDADatabaseOperations.insert_new_standards(df).
CallSync(df, readOk, writeOk) ==
    LET res == insert_new_standards(df, catalog, uniqueKey, readOk, writeOk) IN
    /\ mpc = "idle"
    /\ Len(catalog) + Len(res[2]) <= MaxCatalog
    /\ catalog' = to_sql(catalog, res[2])
    /\ h_sync' = SyncRecord(df, res, readOk, writeOk)
    /\ h_run' = AfterReset(FALSE)
    /\ UNCHANGED <<Config, objects, files, mpc, scraped_df, tasks>>

\* A direct call of FDADatabaseOperations.reset_s3_paths().
CallReset(dbOk) ==
    /\ mpc = "idle"
    /\ catalog' = reset_s3_paths(catalog, dbOk)
    /\ h_sync' = NoSync
    /\ h_run' = AfterReset(dbOk)
    /\ UNCHANGED <<Config, objects, files, mpc, scraped_df, tasks>>

\* main(), a new process: with FORCE_DB_LOAD the S3 paths are reset; then
\* run_full_pipeline starts.
Main(force_reload, dbOk) ==
    /\ mpc = "idle"
    /\ catalog' = IF force_reload THEN reset_s3_paths(catalog, dbOk) ELSE catalog
    /\ mpc' = "scrape"
    /\ files' = {}
    /\ h_sync' = NoSync
    /\ h_run' = AfterReset(force_reload /\ dbOk)
    /\ UNCHANGED <<Config, objects, scraped_df, tasks>>

\* A step 1 that goes on to the sync with an empty frame.
Scrape_going_on_without_records(df) ==
    /\ mpc = "scrape"
    /\ Len(catalog) + Len(NewRecords(df.rows, existing_ids(catalog))) <= MaxCatalog
    /\ healthy => df.rows # <<>>
    /\ mpc' = "scraped" /\ scraped_df' = df
    /\ UNCHANGED <<Config, catalog, objects, files, tasks, h_sync, h_run>>

\* run_full_pipeline, step 1: the crawl returns df; an empty frame ends the run
\* with False.  The table of the model holds MaxCatalog rows at most.
Scrape(df) ==
    /\ mpc = "scrape"
    /\ Len(catalog) + Len(NewRecords(df.rows, existing_ids(catalog))) <= MaxCatalog
    /\ healthy => df.rows # <<>>
    /\ IF df.rows = <<>>
       THEN mpc' = "idle" /\ scraped_df' = NoFrame /\ h_run' = ReturnFromRun("False")
       ELSE mpc' = "scraped" /\ scraped_df' = df /\ h_run' = h_run
    /\ UNCHANGED <<Config, catalog, objects, files, tasks, h_sync>>

\* process_fda_standards: "new_records": len(df) if success else 0
new_records(df) == Len(df.rows)

\* A step 2 whose insert writes the rows of the table again, keys unset.
MainSync_rewriting_the_rows(readOk, writeOk, queryOk) ==
    LET res == insert_new_standards(scraped_df, catalog, uniqueKey, readOk, writeOk)
        unprocessed == get_unprocessed_standards(catalog \o res[2], queryOk)
        pending_pdfs == Len(unprocessed)
    IN  /\ mpc = "scraped"
        /\ catalog' = to_sql(reset_s3_paths(catalog, TRUE), res[2])
        /\ h_sync' = SyncRecord(scraped_df, res, readOk, writeOk)
        /\ mpc' = IF ~res[1] \/ (new_records(scraped_df) = 0 /\ pending_pdfs = 0)
                  THEN "idle" ELSE "step3"
        /\ h_run' = IF ~res[1] THEN ReturnFromRun("False")
                    ELSE IF new_records(scraped_df) = 0 /\ pending_pdfs = 0
                         THEN ReturnFromRun("True")
                    ELSE h_run
        /\ scraped_df' = NoFrame
        /\ UNCHANGED <<Config, objects, files, tasks>>

\* run_full_pipeline, step 2: process_fda_standards(scraped_df).  A failed
\* insert ends the run; so does new_records = 0 with nothing pending, where
\* new_records is len(df).
MainSync(readOk, writeOk, queryOk) ==
    LET res == insert_new_standards(scraped_df, catalog, uniqueKey, readOk, writeOk)
        unprocessed == get_unprocessed_standards(catalog \o res[2], queryOk)
        pending_pdfs == Len(unprocessed)
    IN  /\ mpc = "scraped"
        /\ catalog' = to_sql(catalog, res[2])
        /\ h_sync' = SyncRecord(scraped_df, res, readOk, writeOk)
        /\ mpc' = IF ~res[1] \/ (new_records(scraped_df) = 0 /\ pending_pdfs = 0)
                  THEN "idle" ELSE "step3"
        /\ h_run' = IF ~res[1] THEN ReturnFromRun("False")
                    ELSE IF new_records(scraped_df) = 0 /\ pending_pdfs = 0
                         THEN ReturnFromRun("True")
                    ELSE h_run
        /\ scraped_df' = NoFrame
        /\ UNCHANGED <<Config, objects, files, tasks>>

\* run_full_pipeline, step 3: the unprocessed rows are read and, when there
\* are any, submitted to the pool by process_unprocessed_standards.
MainStep3(queryOk) ==
    LET unprocessed_df == get_unprocessed_standards(catalog, queryOk) IN
    /\ mpc = "step3"
    /\ IF unprocessed_df = <<>>
       THEN mpc' = "idle" /\ tasks' = <<>> /\ h_run' = ReturnFromRun("True")
       ELSE /\ mpc' = "pipeline"
            /\ tasks' = [k \in DOMAIN unprocessed_df |-> Submit(unprocessed_df[k])]
            /\ h_run' = h_run
    /\ h_sync' = NoSync
    /\ UNCHANGED <<Config, catalog, objects, files, scraped_df>>

\* ------------------------------------------------------------- pool workers
WorkerFrame == <<Config, mpc, scraped_df, h_sync, h_run>>

SetTask(i, t) == tasks' = [tasks EXCEPT ![i] = t]

\* A pool that starts a thread for every future submitted.
StartTask_with_a_thread_per_future(i) ==
    /\ mpc = "pipeline"
    /\ i \in Queued(tasks)
    /\ \A j \in Queued(tasks) : i <= j
    /\ SetTask(i, [tasks[i] EXCEPT !.pc = IF use_s3 THEN "exists_pdf" ELSE "extract"])
    /\ UNCHANGED <<WorkerFrame, catalog, objects, files>>

\* A pool thread takes the oldest queued future while a thread is free.
StartTask(i) ==
    /\ mpc = "pipeline"
    /\ i \in Queued(tasks)
    /\ \A j \in Queued(tasks) : i <= j
    /\ Cardinality(Running(tasks)) < max_workers
    /\ SetTask(i, [tasks[i] EXCEPT !.pc = IF use_s3 THEN "exists_pdf" ELSE "extract"])
    /\ UNCHANGED <<WorkerFrame, catalog, objects, files>>

\* process_standard: self.s3_ops.file_exists(pdf_s3_key)
ProbePdf(i, outcome) ==
    /\ mpc = "pipeline"
    /\ i \in DOMAIN tasks
    /\ tasks[i].pc = "exists_pdf"
    /\ SetTask(i, IF outcome = "raise" THEN Return(tasks[i], FALSE)
                  ELSE IF file_exists(objects, pdf_s3_key(tasks[i]), outcome)
                       THEN [tasks[i] EXCEPT !.pc = "exists_html"]
                       ELSE [tasks[i] EXCEPT !.pc = "extract"])
    /\ UNCHANGED <<WorkerFrame, catalog, objects, files>>

\* process_standard: ... and self.s3_ops.file_exists(html_s3_key)
ProbeHtml(i, outcome) ==
    /\ mpc = "pipeline"
    /\ i \in DOMAIN tasks
    /\ tasks[i].pc = "exists_html"
    /\ SetTask(i, IF outcome = "raise" THEN Return(tasks[i], FALSE)
                  ELSE IF file_exists(objects, html_s3_key(tasks[i]), outcome)
                       THEN [tasks[i] EXCEPT !.pc = "skip_update", !.skip = TRUE]
                       ELSE [tasks[i] EXCEPT !.pc = "extract"])
    /\ UNCHANGED <<WorkerFrame, catalog, objects, files>>

\* process_standard, both objects exist: the paths are recorded and the call
\* returns True, whatever update_s3_paths returned.
SkipUpdate(i, dbOk) ==
    LET t == tasks[i]
        res == update_s3_paths(catalog, t.title_link, t.pdf_filename, t.html_filename, dbOk)
    IN  /\ mpc = "pipeline"
        /\ i \in DOMAIN tasks
        /\ t.pc = "skip_update"
        /\ catalog' = res[2]
        /\ SetTask(i, Return([t EXCEPT !.wrote = res[1]], TRUE))
        /\ UNCHANGED <<WorkerFrame, objects, files>>

\* process_standard: extract_detailed_data, which returns a dict whether or
\* not the fetch works (the except branch builds it from the row), then
\* generate_pdf, which writes the local file or returns None.  `fetch_failed`
\* remembers that the except branch was taken.
ExtractAndGeneratePdf(i, fetchOk, genOk) ==
    LET t == tasks[i] IN
    /\ mpc = "pipeline"
    /\ i \in DOMAIN tasks
    /\ t.pc = "extract"
    /\ files' = IF genOk THEN files \cup {pdf_local_path(t)} ELSE files
    /\ SetTask(i, [t EXCEPT !.pc = "gen_html", !.fetched = TRUE,
                            !.fetch_failed = ~fetchOk,
                            !.pdf_path = IF genOk THEN pdf_local_path(t) ELSE NULL])
    /\ UNCHANGED <<WorkerFrame, catalog, objects>>

\* process_standard: generate_html; without S3 the call returns True here.
GenerateHtml(i, genOk) ==
    LET t == tasks[i]
        t2 == [t EXCEPT !.html_path = IF genOk THEN html_local_path(t) ELSE NULL]
    IN  /\ mpc = "pipeline"
        /\ i \in DOMAIN tasks
        /\ t.pc = "gen_html"
        /\ files' = IF genOk THEN files \cup {html_local_path(t)} ELSE files
        /\ SetTask(i, IF use_s3 THEN [t2 EXCEPT !.pc = "up_pdf"] ELSE Return(t2, TRUE))
        /\ UNCHANGED <<WorkerFrame, catalog, objects>>

\* S3Operations.upload_file(local_path, key): "ok" puts the object, a
\* ClientError returns False, anything else raises; a missing local file (or
\* a None path) raises too.
upload_file(path, outcome) ==
    IF path = NULL \/ path \notin files \/ outcome = "raise" THEN "raise"
    ELSE outcome

\* The position after the PDF upload returned `ok`.
AfterUploadPdf(t, ok) == IF ok THEN [t EXCEPT !.pc = "up_html"] ELSE Return(t, FALSE)

\* A process_standard that went on to the update whatever the HTML upload
\* returned.
AfterUploadHtml_ignoring_failure(t, ok) == [t EXCEPT !.pc = "update"]

\* The position after the HTML upload returned `ok`.
AfterUploadHtml(t, ok) == IF ok THEN [t EXCEPT !.pc = "update"] ELSE Return(t, FALSE)

\* process_standard: upload_file(pdf_path, pdf_s3_key, 'application/pdf')
UploadPdf(i, outcome) ==
    LET t == tasks[i]
        got == upload_file(t.pdf_path, outcome)
    IN  /\ mpc = "pipeline"
        /\ i \in DOMAIN tasks
        /\ t.pc = "up_pdf"
        /\ objects' = IF got = "ok" THEN objects \cup {pdf_s3_key(t)} ELSE objects
        /\ SetTask(i, IF got = "raise" THEN Return(t, FALSE)
                      ELSE AfterUploadPdf([t EXCEPT !.up_pdf = (got = "ok")], got = "ok"))
        /\ UNCHANGED <<WorkerFrame, catalog, files>>

\* process_standard: upload_file(html_path, html_s3_key, 'text/html')
UploadHtml(i, outcome) ==
    LET t == tasks[i]
        got == upload_file(t.html_path, outcome)
    IN  /\ mpc = "pipeline"
        /\ i \in DOMAIN tasks
        /\ t.pc = "up_html"
        /\ objects' = IF got = "ok" THEN objects \cup {html_s3_key(t)} ELSE objects
        /\ SetTask(i, IF got = "raise" THEN Return(t, FALSE)
                      ELSE AfterUploadHtml([t EXCEPT !.up_html = (got = "ok")], got = "ok"))
        /\ UNCHANGED <<WorkerFrame, catalog, files>>

\* process_standard, both uploads done: the paths are recorded.
Update(i, dbOk) ==
    LET t == tasks[i]
        res == update_s3_paths(catalog, t.title_link, t.pdf_filename, t.html_filename, dbOk)
    IN  /\ mpc = "pipeline"
        /\ i \in DOMAIN tasks
        /\ t.pc = "update"
        /\ catalog' = res[2]
        /\ SetTask(i, [t EXCEPT !.pc = "rm_pdf", !.wrote = res[1]])
        /\ UNCHANGED <<WorkerFrame, objects, files>>

\* process_standard: os.remove(pdf_path), which raises when the file is gone.
RemovePdf(i) ==
    LET t == tasks[i] IN
    /\ mpc = "pipeline"
    /\ i \in DOMAIN tasks
    /\ t.pc = "rm_pdf"
    /\ files' = files \ {t.pdf_path}
    /\ SetTask(i, IF t.pdf_path \in files THEN [t EXCEPT !.pc = "rm_html"]
                  ELSE Return(t, FALSE))
    /\ UNCHANGED <<WorkerFrame, catalog, objects>>

\* process_standard: os.remove(html_path), then return True.
RemoveHtml(i) ==
    LET t == tasks[i] IN
    /\ mpc = "pipeline"
    /\ i \in DOMAIN tasks
    /\ t.pc = "rm_html"
    /\ files' = files \ {t.html_path}
    /\ SetTask(i, Return(t, t.html_path \in files))
    /\ UNCHANGED <<WorkerFrame, catalog, objects>>

\* A with-block left as soon as one future has finished.
AllFinished_first_future(ts) == \E i \in DOMAIN ts : ts[i].pc = "done"

\* The with-block of process_unprocessed_standards is left once every future
\* has finished.
AllFinished(ts) == Finished(ts) = DOMAIN ts

\* process_unprocessed_standards returns; run_full_pipeline returns True.
ReturnRun ==
    /\ mpc = "pipeline"
    /\ AllFinished(tasks)
    /\ h_run' = [op |-> "run", total |-> Len(tasks),
                 finished |-> Cardinality(Finished(tasks)),
                 successful |-> Cardinality({i \in DOMAIN tasks : tasks[i].result}),
                 result |-> "True"]
    /\ tasks' = <<>>
    /\ mpc' = "idle"
    /\ UNCHANGED <<Config, catalog, objects, files, scraped_df, h_sync>>

Worker(i) ==
    \/ StartTask(i)
    \/ \E outcome \in Outcomes :
          \/ ProbePdf(i, outcome)
          \/ ProbeHtml(i, outcome)
          \/ UploadPdf(i, outcome)
          \/ UploadHtml(i, outcome)
    \/ \E a, b \in Oks :
          \/ ExtractAndGeneratePdf(i, a, b)
          \/ GenerateHtml(i, a)
          \/ SkipUpdate(i, a)
          \/ Update(i, a)
    \/ RemovePdf(i)
    \/ RemoveHtml(i)

\* The program: main() runs, one after the other, and resets between them.
Next ==
    \/ \E dbOk \in Oks : CallReset(dbOk)
    \/ \E force_reload \in BOOLEAN, dbOk \in Oks : Main(force_reload, dbOk)
    \/ \E df \in ScrapedFrames : Scrape(df)
    \/ \E readOk, writeOk, queryOk \in Oks : MainSync(readOk, writeOk, queryOk)
    \/ \E queryOk \in Oks : MainStep3(queryOk)
    \/ \E i \in 1..MaxCatalog : Worker(i)
    \/ ReturnRun

Spec == Init /\ [][Next]_vars

\* The calls of FDADatabaseOperations alone, in any order.
NextSync ==
    \/ \E df \in Frames, readOk, writeOk \in BOOLEAN : CallSync(df, readOk, writeOk)
    \/ \E dbOk \in BOOLEAN : CallReset(dbOk)

SpecSync == Init /\ [][NextSync]_vars

\* Between two runs the failures end: from then on the site, the renderer,
\* S3 and the database work.
Heal ==
    /\ mpc = "idle"
    /\ ~healthy
    /\ healthy' = TRUE
    /\ UNCHANGED <<uniqueKey, use_s3, max_workers, catalog, objects, files, mpc,
                   scraped_df, tasks, h_sync, h_run, crawl, parse, call>>

\* The runs of main() without FORCE_DB_LOAD, and no reset between them.
NextNoReset ==
    \/ Heal
    \/ \E dbOk \in Oks : Main(FALSE, dbOk)
    \/ \E df \in ScrapedFrames : Scrape(df)
    \/ \E readOk, writeOk, queryOk \in Oks : MainSync(readOk, writeOk, queryOk)
    \/ \E queryOk \in Oks : MainStep3(queryOk)
    \/ \E i \in 1..MaxCatalog : Worker(i)
    \/ ReturnRun

SpecNoReset == Init /\ [][NextNoReset]_vars

\* Another process calls reset_s3_paths() while a run of main() is under way.
ResetDuringRun(dbOk) ==
    /\ mpc # "idle"
    /\ catalog' = reset_s3_paths(catalog, dbOk)
    /\ UNCHANGED <<Config, objects, files, mpc, scraped_df, tasks, h_sync, h_run>>

\* Another process calls insert_new_standards(df) while a run of main() is
\* under way.
SyncDuringRun(df, readOk, writeOk) ==
    LET res == insert_new_standards(df, catalog, uniqueKey, readOk, writeOk) IN
    /\ mpc # "idle"
    /\ Len(catalog) + Len(res[2]) <= MaxCatalog
    /\ catalog' = to_sql(catalog, res[2])
    /\ UNCHANGED <<Config, objects, files, mpc, scraped_df, tasks, h_sync, h_run>>

\* main() and, at any moment of a run, the calls of FDADatabaseOperations by
\* another process; a call that fails there leaves every variable as it is.
NextInterleaved ==
    \/ Next
    \/ ResetDuringRun(TRUE)
    \/ \E df \in ScrapedFrames : SyncDuringRun(df, TRUE, TRUE)

SpecInterleaved == Init /\ [][NextInterleaved]_vars

NextLive == Next \/ Heal

\* One step of the pool stage: a step of a call of process_standard, or the
\* return of process_unprocessed_standards.
PoolStep == (\E i \in 1..MaxCatalog : Worker(i)) \/ ReturnRun

\* The threads of the pool are scheduled, and the main thread leaves the
\* with-block when the futures are done.
Fairness == WF_vars(PoolStep)

LiveSpec == Init /\ [][NextLive]_vars /\ Fairness

\* ----------------------------------------------------------------- scraper.py
\* A td of the results table: its text and, when it holds an <a>, the anchor
\* (anchor "href": with an href attribute; "nohref": without one; "none": no
\* anchor).  The text of a cell that holds an anchor is the anchor's text.  A
\* tr is the sequence of its td cells, and a page is a soup: with or without
\* the results table, and the table's tr rows.
Td(text, anchor, href) == [text |-> text, anchor |-> anchor, href |-> href]
NoTable == [table |-> FALSE, trs |-> <<>>]
Table(trs) == [table |-> TRUE, trs |-> trs]

\* td.get_text(strip=True)
get_text(td) == Strip(td.text)

\* row_texts = [td.get_text(strip=True) for td in tds]
row_texts(tds) == [k \in DOMAIN tds |-> get_text(tds[k])]

\* "Date" in txt
DateIn(txt) == \E k \in DOMAIN txt : txt[k] = "Date"

\* URLs are sequences <<scheme, host, directory, file>>; a reference is a full
\* URL, a path from the root (it starts with "/"), a path relative to the
\* directory, or empty.
Schemes == {"https:", "http:"}

\* The URL that fetch_page requests and the links are resolved against.
FDA_BASE_URL == <<"https:", "//fda", "/cfStandards/", "results.cfm">>

\* A urljoin that left the reference as it stands in the page.
urljoin_keeps_reference(base, url) == url

\* urllib.parse.urljoin
urljoin(base, url) ==
    IF url = <<>> THEN base
    ELSE IF Head(url) \in Schemes THEN url
    ELSE IF Head(url) = "/" THEN <<base[1], base[2]>> \o url
    ELSE <<base[1], base[2], base[3]>> \o url

\* The header template of a crawl: None until a row sets it, then the cell
\* texts of that row (never an empty list: a row without td is passed over).
NoTemplate == <<>>

\* A test of line 43 that forgot `header_template is None`.
DetectsHeader_on_every_page(texts, header_template) ==
    \E k \in DOMAIN texts : DateIn(texts[k])

\* header_template is None and any("Date" in txt for txt in row_texts)
DetectsHeader(texts, header_template) ==
    /\ header_template = NoTemplate
    /\ \E k \in DOMAIN texts : DateIn(texts[k])

\* A test of line 46 that never recognised the template again.
RepeatsHeader_never(texts, header_template) == FALSE

\* header_template and row_texts == header_template
RepeatsHeader(texts, header_template) ==
    /\ header_template # NoTemplate
    /\ texts = header_template

\* The dict of a row: four leading fields, the organisation, the designation,
\* and title and link from the title cell.
RowDict(lead, sdo, designation, title_td) ==
    [date_of_entry |-> lead[1],
     specialty_task_group_area |-> lead[2],
     recognition_number |-> lead[3],
     extent_of_recognition |-> lead[4],
     standards_developing_organization |-> sdo,
     standard_designation_number_and_date |-> designation,
     standard_title |-> get_text(title_td),
     title_link |-> IF title_td.anchor # "none"
                    THEN urljoin(FDA_BASE_URL, title_td.href)
                    ELSE <<>>]

\* a_tag["href"] on an anchor without the attribute raises KeyError.
RaisesKeyError(tds) ==
    \/ Len(tds) >= 7 /\ tds[7].anchor = "nohref"
    \/ Len(tds) = 3 /\ tds[3].anchor = "nohref"

\* A carry that starts a page with the cells of a full row of a page before.
Carry_of_the_page_before == <<<<"1">>, <<"a">>, <<"n">>, <<"e">>>>

\* carry = [None, None, None, None], at the start of each call.
NoCarry == <<NULL, NULL, NULL, NULL>>

\* One pass of the for loop of extract_table_rows over the row `tds`; st holds
\* rows, carry, header_template and whether an exception left the loop.
RowStep(st, tds) ==
    LET texts == row_texts(tds) IN
    IF st.raised \/ Len(tds) = 0 THEN st
    ELSE IF DetectsHeader(texts, st.header_template)
         THEN [st EXCEPT !.header_template = texts]
    ELSE IF RepeatsHeader(texts, st.header_template) THEN st
    ELSE IF RaisesKeyError(tds) THEN [st EXCEPT !.raised = TRUE]
    ELSE IF Len(tds) >= 7
         THEN [st EXCEPT
                 !.rows = Append(@, RowDict(SubSeq(texts, 1, 4), texts[5],
                                            texts[6], tds[7])),
                 !.carry = SubSeq(texts, 1, 4)]
    ELSE IF Len(tds) = 3
         THEN [st EXCEPT
                 !.rows = Append(@, RowDict(st.carry, texts[1], texts[2], tds[3]))]
    ELSE st

RECURSIVE ForEachRow(_, _, _)
ForEachRow(st, trs, i) ==
    IF i > Len(trs) THEN st ELSE ForEachRow(RowStep(st, trs[i]), trs, i + 1)

\* extract_table_rows(soup, header_template): the rows and the template it
\* returns, or raised.
extract_table_rows(soup, header_template) ==
    IF ~soup.table
    THEN [rows |-> <<>>, carry |-> NoCarry, header_template |-> header_template,
          raised |-> FALSE]
    ELSE ForEachRow([rows |-> <<>>, carry |-> NoCarry,
                     header_template |-> header_template, raised |-> FALSE],
                    soup.trs, 1)

RowColumns ==
    {"date_of_entry", "specialty_task_group_area", "recognition_number",
     "extent_of_recognition", "standards_developing_organization",
     "standard_designation_number_and_date", "standard_title", "title_link"}

\* pd.DataFrame(all_rows, columns=COLUMNS).fillna("").astype(str): a None
\* becomes the empty string, a string stays.
DataFrame(all_rows) ==
    [columns |-> RowColumns,
     rows |-> [i \in DOMAIN all_rows |->
                 [c \in RowColumns |->
                     IF all_rows[i][c] = NULL THEN <<>> ELSE all_rows[i][c]]]]

\* The rows the listing is made of.
Plain(text) == Td(text, "none", <<>>)

\* The table's own header, in td cells.
HeaderRow ==
    <<Plain(<<"Date", " ", "o", "f">>), Plain(<<"A">>), Plain(<<"N">>),
      Plain(<<"E">>), Plain(<<"O">>), Plain(<<"G">>), Plain(<<"T">>)>>

\* The header in th cells: a tr without a td.
ThRow == <<>>

\* Full rows: the title in an anchor with a relative reference; eight cells and
\* a plain title; and a title that holds the word "Date".
FullRow ==
    <<Plain(<<"1">>), Plain(<<"a">>), Plain(<<"n">>), Plain(<<" ", "e">>),
      Plain(<<"o">>), Plain(<<"g">>),
      Td(<<"f", "\n">>, "href", <<"detail.cfm">>)>>

FullRow8 ==
    <<Plain(<<"2">>), Plain(<<"b">>), Plain(<<"m">>), Plain(<<>>),
      Plain(<<"p">>), Plain(<<"h">>), Plain(<<"w">>), Plain(<<"x">>)>>

FullRowDate ==
    <<Plain(<<"3">>), Plain(<<"c">>), Plain(<<"l">>), Plain(<<"e">>),
      Plain(<<"q">>), Plain(<<"i">>),
      Td(<<"Date", "d">>, "href", <<"/", "d.cfm">>)>>

\* Continuation rows: the title in an anchor with a full URL; a plain title; a
\* title that holds the word "Date"; an anchor without href.
ContRow ==
    <<Plain(<<"r">>), Plain(<<"j">>),
      Td(<<"k">>, "href", <<"http:", "//iso", "/", "k">>)>>

ContRowPlain == <<Plain(<<"s">>), Plain(<<"j">>), Plain(<<" ", "y">>)>>

ContRowDate == <<Plain(<<"r">>), Plain(<<"j">>), Plain(<<"Date", "z">>)>>

ContRowNoHref == <<Plain(<<"r">>), Plain(<<"j">>), Td(<<"v">>, "nohref", <<>>)>>

\* A row of another width.
OtherRow == <<Plain(<<"1">>), Plain(<<"a">>), Plain(<<"n">>), Plain(<<"e">>)>>

\* What the listing's server knows: which rows are its header and which carry
\* a record.
IsHeaderRow(tds) == tds \in {HeaderRow, ThRow}
IsDataRow(tds) == ~IsHeaderRow(tds) /\ (Len(tds) >= 7 \/ Len(tds) = 3)
DataRows(soup) == {i \in DOMAIN soup.trs : IsDataRow(soup.trs[i])}

ParseRows ==
    {HeaderRow, ThRow, FullRow, FullRow8, FullRowDate, ContRow, ContRowPlain,
     ContRowDate, ContRowNoHref, OtherRow}

ParsePages == {NoTable} \cup {Table(trs) : trs \in BoundedSeq(ParseRows, MaxRows)}

\* The templates a crawl can hold when it parses a page.
Templates == {NoTemplate, row_texts(HeaderRow), row_texts(FullRowDate)}

\* What the crawl and the parse leave alone.
Pipeline ==
    <<catalog, uniqueKey, use_s3, objects, files, mpc, scraped_df, tasks,
      max_workers, healthy, h_sync, h_run>>

PipelineIdle ==
    /\ catalog = <<>>
    /\ uniqueKey = TRUE
    /\ use_s3 = TRUE
    /\ objects = {}
    /\ files = {}
    /\ mpc = "idle"
    /\ scraped_df = NoFrame
    /\ tasks = <<>>
    /\ max_workers = MaxWorkersOf(1)
    /\ healthy = TRUE
    /\ h_sync = NoSync
    /\ h_run = NoRun

\* ---- one call of extract_table_rows
InitParse ==
    /\ PipelineIdle
    /\ crawl = NoCrawl
    /\ call = NoCall
    /\ \E soup \in ParsePages, t \in Templates :
           parse = [pc |-> "call", soup |-> soup, header_template |-> t,
                    result |-> extract_table_rows(NoTable, t),
                    df |-> DataFrame(<<>>)]

\* The call returns or raises; line 112 makes the frame of the rows.
ParseCall ==
    /\ parse.pc = "call"
    /\ LET res == extract_table_rows(parse.soup, parse.header_template) IN
       parse' = [parse EXCEPT
                   !.pc = IF res.raised THEN "raised" ELSE "returned",
                   !.result = res,
                   !.df = IF res.raised THEN @ ELSE DataFrame(res.rows)]
    /\ UNCHANGED <<Pipeline, crawl, call>>

NextParse == ParseCall

SpecParse == InitParse /\ [][NextParse]_vars

\* ---- the crawl
\* The pages of the listing: no table, or a table that starts with its header
\* row or without one and goes on with up to PageSize data rows.
CrawlRows == {FullRow, FullRowDate, ContRow, ContRowNoHref}

CrawlPages ==
    {NoTable} \cup
    {Table(h \o trs) : h \in {<<>>, <<HeaderRow>>},
                       trs \in BoundedSeq(CrawlRows, PageSize)}

\* The server answers a request for `start` with a page that holds the
\* records start .. start + PageSize - 1 of its N, as far as it has them.
Serves(soup, start, N) ==
    Cardinality(DataRows(soup)) =
        IF N < start THEN 0 ELSE Min(PageSize, N - start + 1)

\* scrape_fda_standards up to the loop: all_rows = [], start = 1,
\* header_template = None.  N is the number of records the listing has;
\* `fetches` keeps the offsets requested and `assigned` the offsets of the
\* pages that gave header_template a new value.
InitCrawl ==
    /\ PipelineIdle
    /\ parse = NoParse
    /\ call = NoCall
    /\ \E n \in 0..MaxRecords :
           crawl = [pc |-> "loop", N |-> n, start |-> 1,
                    header_template |-> NoTemplate, all_rows |-> <<>>,
                    fetches |-> <<>>, assigned |-> <<>>, soup |-> NoTable,
                    page_rows |-> <<>>,
                    failed |-> FALSE, df |-> DataFrame(<<>>)]

\* A loop that goes on after a short page too.
LastPage_never(page_rows) == FALSE

\* if len(page_rows) < 500: break  # last page
LastPage(page_rows) == Len(page_rows) < PageSize

\* An extend that put the page's rows in front.
extend_in_front(all_rows, page_rows) == page_rows \o all_rows

\* all_rows.extend(page_rows)
extend(all_rows, page_rows) == all_rows \o page_rows

\* A pass of the loop whose except branch kept the rows that the parse had
\* made before it raised.
CrawlPage_keeping_partial_page(soup, fetchOk) ==
    /\ crawl.pc = "loop"
    /\ LET res == extract_table_rows(soup, crawl.header_template)
           c1 == [crawl EXCEPT !.fetches = Append(@, crawl.start)]
           c2 == [c1 EXCEPT !.soup = soup, !.page_rows = res.rows,
                            !.header_template = res.header_template,
                            !.assigned =
                                IF res.header_template = crawl.header_template
                                THEN @ ELSE Append(@, crawl.start)]
           c3 == [c2 EXCEPT !.all_rows = extend(@, res.rows)]
       IN  crawl' =
               IF ~fetchOk THEN [c1 EXCEPT !.pc = "break", !.failed = TRUE]
               ELSE IF res.raised
                    THEN [c1 EXCEPT !.pc = "break", !.failed = TRUE, !.soup = soup,
                                    !.all_rows = extend(@, res.rows)]
               ELSE IF res.rows = <<>> THEN [c2 EXCEPT !.pc = "break"]
               ELSE IF LastPage(res.rows) THEN [c3 EXCEPT !.pc = "break"]
               ELSE [c3 EXCEPT !.start = @ + PageSize]
    /\ UNCHANGED <<Pipeline, parse, call>>

\* One pass of the while loop: fetch_page(start), which raises when fetchOk is
\* false, extract_table_rows, and the two tests that leave the loop.
CrawlPage(soup, fetchOk) ==
    /\ crawl.pc = "loop"
    /\ LET res == extract_table_rows(soup, crawl.header_template)
           c1 == [crawl EXCEPT !.fetches = Append(@, crawl.start)]
           c2 == [c1 EXCEPT !.soup = soup, !.page_rows = res.rows,
                            !.header_template = res.header_template,
                            !.assigned =
                                IF res.header_template = crawl.header_template
                                THEN @ ELSE Append(@, crawl.start)]
           c3 == [c2 EXCEPT !.all_rows = extend(@, res.rows)]
       IN  crawl' =
               IF ~fetchOk THEN [c1 EXCEPT !.pc = "break", !.failed = TRUE]
               ELSE IF res.raised
                    THEN [c1 EXCEPT !.pc = "break", !.failed = TRUE, !.soup = soup]
               ELSE IF res.rows = <<>> THEN [c2 EXCEPT !.pc = "break"]
               ELSE IF LastPage(res.rows) THEN [c3 EXCEPT !.pc = "break"]
               ELSE [c3 EXCEPT !.start = @ + PageSize]
    /\ UNCHANGED <<Pipeline, parse, call>>

\* After the loop: line 112 makes the frame, and the call returns it.
CrawlReturn ==
    /\ crawl.pc = "break"
    /\ crawl' = [crawl EXCEPT !.pc = "done", !.df = DataFrame(crawl.all_rows)]
    /\ UNCHANGED <<Pipeline, parse, call>>

NextCrawl ==
    \/ \E soup \in CrawlPages, fetchOk \in BOOLEAN :
           /\ Serves(soup, crawl.start, crawl.N)
           /\ CrawlPage(soup, fetchOk)
    \/ CrawlReturn

SpecCrawl == InitCrawl /\ [][NextCrawl]_vars

\* The crawl is one call, which runs on: the while loop makes its next pass
\* and the statements after the loop are executed.
LiveCrawl == SpecCrawl /\ WF_vars(NextCrawl)

\* ------------------------------------------------------- generate_unique_id
\* The rows the identity is computed for: key fields with and without the
\* separator "|" in them, and two titles.
RnValues == {<<"1">>, <<"1", "|", "a">>, <<"1", "a">>}
SdoValues == {<<"b">>, <<"a", "|", "b">>, <<"a", "b">>}
DesValues == {<<"x">>, <<"b", "|", "x">>}
TitleValues == {<<"T">>, <<"S">>}

IdRows ==
    {Rec(rn, sdo, des, title, <<>>) :
        rn \in RnValues, sdo \in SdoValues, des \in DesValues, title \in TitleValues}

\* Two rows of a frame, before check_duplicates computes df['unique_id'].
InitIdentity ==
    /\ PipelineIdle
    /\ crawl = NoCrawl
    /\ parse = NoParse
    /\ \E r1 \in IdRows, r2 \in IdRows :
           call = [pc |-> "call", r1 |-> r1, r2 |-> r2, id1 |-> NULL, id2 |-> NULL,
                   again1 |-> NULL]

\* df.apply(lambda row: self.generate_unique_id(...), axis=1) on the two rows.
IdentityCall ==
    /\ call.pc = "call"
    /\ call' = [call EXCEPT !.pc = "returned",
                            !.id1 = UniqueIdOf(call.r1),
                            !.id2 = UniqueIdOf(call.r2)]
    /\ UNCHANGED <<Pipeline, crawl, parse>>

\* A later call, in the same or another run, on the first row.
IdentityAgain ==
    /\ call.pc = "returned"
    /\ call' = [call EXCEPT !.pc = "again", !.again1 = UniqueIdOf(call.r1)]
    /\ UNCHANGED <<Pipeline, crawl, parse>>

NextIdentity == IdentityCall \/ IdentityAgain

SpecIdentity == InitIdentity /\ [][NextIdentity]_vars

\* ------------------------------------------------- extract_detailed_data
N_A == <<"N/A">>

\* _format_date: None and NaT give "N/A"; a string is stripped, and "N/A"
\* when nothing is left.
format_date(value) ==
    IF value = NULL THEN N_A
    ELSE IF Strip(value) = <<>> THEN N_A ELSE Strip(value)

\* row.get('date_of_entry', None)
RowDate(row) == IF "date_of_entry" \in DOMAIN row THEN row.date_of_entry ELSE NULL

\* A detail page, as the date search sees it: the text of the td after the
\* td of the first date label found (NULL without one), and the date the
\* regular expression finds in the text around the label (NULL without one).
DetailPages ==
    [sibling : {NULL, <<" ">>, <<" ", "12/31/2024", " ">>},
     nearby : {NULL, <<"1/2/2024">>}]

NotFound == <<"not found">>

\* The date the search over date_labels finds on the page, or NotFound.
PageDate(page) ==
    IF page.sibling # NULL /\ Strip(page.sibling) # <<>> THEN Strip(page.sibling)
    ELSE IF page.nearby # NULL THEN page.nearby
    ELSE NotFound

\* extract_detailed_data(url, row)["Date_of_Entry"]: the date found on the
\* page, else the row's; a failed fetch takes the except branch, which has
\* the row's date only.
extract_detailed_data(page, row, fetchOk) ==
    IF fetchOk /\ PageDate(page) # NotFound
    THEN format_date(PageDate(page))
    ELSE format_date(RowDate(row))

\* The date_of_entry column of a row of the table: NULL, or the crawled date
\* as insert_new_standards wrote it ('%Y-%m-%d').
EntryDates == {NULL, <<"2024-12-31">>, <<"2023-01-05">>}

DateEntries ==
    {[date_of_entry |-> d] @@ NewRow(WithUniqueId(<<r>>)[1]) :
        r \in {RecA, RecC}, d \in EntryDates}

\* One row of the table that lacks a key, and its detail page.
InitDate ==
    /\ PipelineIdle
    /\ crawl = NoCrawl
    /\ parse = NoParse
    /\ \E e \in DateEntries, p \in DetailPages :
           call = [pc |-> "entry", entry |-> e, page |-> p, row |-> NULL,
                   via |-> "none", fetched |-> FALSE, date |-> NULL]

\* Step 3 and process_unprocessed_standards: the row of the frame that
\* get_unprocessed_standards returns for the entry goes to process_standard.
DateSelect ==
    /\ call.pc = "entry"
    /\ call' = [call EXCEPT !.pc = "row", !.via = "pipeline",
                            !.row = get_unprocessed_standards(<<call.entry>>, TRUE)[1]]
    /\ UNCHANGED <<Pipeline, crawl, parse>>

\* test.py: extract_detailed_data on a row that has its date_of_entry column.
DateDirect ==
    /\ call.pc = "entry"
    /\ call' = [call EXCEPT !.pc = "row", !.via = "direct", !.row = call.entry]
    /\ UNCHANGED <<Pipeline, crawl, parse>>

\* data = self.extract_detailed_data(url, row); generate_pdf and generate_html
\* print data["Date_of_Entry"].
DateExtract(fetchOk) ==
    /\ call.pc = "row"
    /\ call' = [call EXCEPT !.pc = "data", !.fetched = fetchOk,
                            !.date = extract_detailed_data(call.page, call.row, fetchOk)]
    /\ UNCHANGED <<Pipeline, crawl, parse>>

NextDate ==
    \/ DateSelect
    \/ DateDirect
    \/ \E fetchOk \in BOOLEAN : DateExtract(fetchOk)

SpecDate == InitDate /\ [][NextDate]_vars

\* ------------------------------ the pool of process_unprocessed_standards
\* The rows of the frame handed to one call of process_unprocessed_standards.
MaxPool == 3

\* os.cpu_count(): None (0 here) or the number of CPUs.
PoolCpuCounts == {0, 1, 2, 3, 16}

PoolRecords == <<RecA, RecB, RecC>>

PoolCatalog ==
    [k \in 1..MaxPool |->
        NewRow(WithUniqueId(<<PoolRecords[((k - 1) % Len(PoolRecords)) + 1]>>)[1])]

\* The objects of the rows of PoolCatalog, when the bucket holds them.
PoolObjects ==
    LET df == get_unprocessed_standards(PoolCatalog, TRUE) IN
    {pdf_s3_key(Submit(df[k])) : k \in DOMAIN df}
        \cup {html_s3_key(Submit(df[k])) : k \in DOMAIN df}

\* run_full_pipeline at step 3 with MaxPool unprocessed rows in the table.
InitPool ==
    /\ catalog = PoolCatalog
    /\ uniqueKey = FALSE
    /\ use_s3 \in BOOLEAN
    /\ objects \in {{}, PoolObjects}
    /\ files = {}
    /\ mpc = "step3"
    /\ scraped_df = NoFrame
    /\ tasks = <<>>
    /\ max_workers \in {MaxWorkersOf(c) : c \in PoolCpuCounts}
    /\ healthy \in BOOLEAN
    /\ h_sync = NoSync
    /\ h_run = NoRun
    /\ crawl = NoCrawl
    /\ parse = NoParse
    /\ call = NoCall

NextPool ==
    \/ \E queryOk \in Oks : MainStep3(queryOk)
    \/ \E i \in 1..MaxPool : Worker(i)
    \/ ReturnRun

SpecPool == InitPool /\ [][NextPool]_vars

\* --------------------------------------------- the queries on the table
\* The values a key column of the table can hold: NULL, the empty string, a
\* key.
KeyValues == {NULL, <<>>, <<"k">>}

QueryRows ==
    {[NewRow(WithUniqueId(<<r>>)[1]) EXCEPT !.aws_key = k1, !.aws_html_key = k2] :
        r \in {RecA, RecC}, k1 \in KeyValues, k2 \in KeyValues}

\* A table, before get_unprocessed_standards and get_sync_status are called.
InitQuery ==
    /\ catalog \in BoundedSeq(QueryRows, MaxCatalog)
    /\ uniqueKey = FALSE
    /\ use_s3 = TRUE
    /\ objects = {}
    /\ files = {}
    /\ mpc = "idle"
    /\ scraped_df = NoFrame
    /\ tasks = <<>>
    /\ max_workers = MaxWorkersOf(1)
    /\ healthy = TRUE
    /\ h_sync = NoSync
    /\ h_run = NoRun
    /\ crawl = NoCrawl
    /\ parse = NoParse
    /\ call = [pc |-> "query", asked |-> {}, unprocessed |-> <<>>,
               status |-> [db_total |-> 0, db_processed |-> 0, pending |-> 0]]

\* db_ops.get_unprocessed_standards()
QueryUnprocessed ==
    /\ call.pc = "query"
    /\ "unprocessed" \notin call.asked
    /\ call' = [call EXCEPT !.asked = @ \cup {"unprocessed"},
                            !.unprocessed = get_unprocessed_standards(catalog, TRUE)]
    /\ UNCHANGED <<Pipeline, crawl, parse>>

\* db_ops.get_sync_status()
QueryStatus ==
    /\ call.pc = "query"
    /\ "status" \notin call.asked
    /\ call' = [call EXCEPT !.asked = @ \cup {"status"},
                            !.status = get_sync_status(catalog)]
    /\ UNCHANGED <<Pipeline, crawl, parse>>

NextQuery == QueryUnprocessed \/ QueryStatus

SpecQuery == InitQuery /\ [][NextQuery]_vars

\* ==================================================================== claims
CountId(cat, id) == Cardinality({i \in DOMAIN cat : cat[i].unique_id = id})

Occurrences(df, id) == Cardinality({i \in DOMAIN df.rows : UniqueIdOf(df.rows[i]) = id})

CleanSync == h_sync.op = "sync" /\ h_sync.clean /\ KeyColumns \subseteq h_sync.df.columns

RowIds(df) == {UniqueIdOf(df.rows[i]) : i \in DOMAIN df.rows}

\* C1: sync is idempotent.  When insert_new_standards is called twice in a row
\* on the same frame (all key columns present, the database working), the
\* second call finds every record of the frame in the table and inserts
\* nothing, and the table holds each identity of the frame exactly once.
C1_SyncTwiceInsertsOnce ==
    (CleanSync /\ h_sync.again) =>
        /\ h_sync.n = 0
        /\ h_sync.fresh = {}
        /\ \A id \in RowIds(h_sync.df) : CountId(catalog, id) = 1

\* C2: within-batch duplicates.  After a sync call whose frame holds an
\* identity twice or more that was not in the table, the table holds exactly
\* one row of that identity.
C2_BatchDuplicateInsertedOnce ==
    CleanSync =>
        \A id \in h_sync.fresh :
            Occurrences(h_sync.df, id) >= 2 => CountId(catalog, id) = 1

\* C3: unique_id is a key of the table: no two rows have the same unique_id.
C3_IdentityIsUnique ==
    \A i, j \in DOMAIN catalog :
        i # j => catalog[i].unique_id # catalog[j].unique_id

\* The step is one of process_standard for task i.
StepOf(i) ==
    mpc = "pipeline" /\ i \in DOMAIN tasks /\ i \in DOMAIN tasks' /\ tasks'[i] # tasks[i]

BothKeysStored(t) == pdf_s3_key(t) \in objects /\ html_s3_key(t) \in objects

\* C4: process_standard writes the two keys to the table only when both
\* uploads succeeded in that call, or when both objects were found to exist;
\* a call whose PDF or HTML upload failed has returned False and written
\* nothing, and its row is Unprocessed for the rest of the pool stage.
C4_UpdateOnlyAfterBothUploads ==
    [][(mpc = "pipeline" /\ mpc' = "pipeline") =>
          \A i \in DOMAIN tasks :
              LET t == tasks[i]
                  t2 == tasks'[i]
              IN  /\ (StepOf(i) /\ (catalog' # catalog \/ (t2.wrote /\ ~t.wrote))) =>
                         /\ (t.skip \/ (t.up_pdf /\ t.up_html))
                         /\ BothKeysStored(t)
                  /\ (t2.pc = "done" /\ t2.at \in {"up_pdf", "up_html"}) =>
                         /\ ~t2.result
                         /\ ~t2.wrote
                         /\ Unprocessed(catalog'[t2.row])]_vars

\* C5: in every state of the table, whatever the order of the inserts, the
\* steps of the pool and the resets, a row has both aws_key and aws_html_key
\* set or both unset.
C5_BothKeysOrNone ==
    \A i \in DOMAIN catalog :
        IsUnset(catalog[i].aws_key) <=> IsUnset(catalog[i].aws_html_key)

\* A run is over in which the PDF of a row was uploaded and its HTML was not,
\* while another row was completed.
C5_Witness ==
    /\ h_run.op = "run"
    /\ \E i, j \in DOMAIN catalog :
          /\ Complete(catalog[i])
          /\ IsUnset(catalog[j].aws_key) /\ IsUnset(catalog[j].aws_html_key)
          /\ S3Prefix \o <<"PDF/">> \o sanitize_filename(FileName(catalog[j], ".pdf")) \in objects
          /\ S3Prefix \o <<"HTML/">> \o sanitize_filename(FileName(catalog[j], ".html"))
                 \notin objects

\* C6: when S3 answers, a call whose two keys are both in S3 takes the skip
\* path; on the skip path both objects exist, nothing was fetched, rendered
\* or uploaded, the call returns True and the update, when it works, leaves
\* the row Complete with the two keys of the call.
C6_SkipWhenBothExist ==
    [][\A i \in DOMAIN tasks : StepOf(i) =>
          LET t == tasks[i]
              t2 == tasks'[i]
          IN  /\ (healthy /\ t.pc = "exists_pdf" /\ BothKeysStored(t)) =>
                     t2.pc = "exists_html"
              /\ (healthy /\ t.pc = "exists_html" /\ BothKeysStored(t)) =>
                     t2.pc = "skip_update"
              /\ t.pc = "skip_update" =>
                     /\ t.skip /\ BothKeysStored(t)
                     /\ ~t.fetched /\ ~t.up_pdf /\ ~t.up_html
                     /\ t.pdf_path = NULL /\ t.html_path = NULL
                     /\ t2.pc = "done" /\ t2.result
                     /\ objects' = objects /\ files' = files
                     /\ (healthy => t2.wrote)
                     /\ t2.wrote =>
                            /\ catalog'[t.row].aws_key = pdf_s3_key(t)
                            /\ catalog'[t.row].aws_html_key = html_s3_key(t)
                            /\ Complete(catalog'[t.row])]_vars

\* A call returned True from the skip path and its row holds the two keys.
C6_Witness ==
    \E i \in DOMAIN tasks :
        /\ tasks[i].pc = "done" /\ tasks[i].at = "skip_update" /\ tasks[i].result
        /\ tasks[i].wrote
        /\ catalog[tasks[i].row].aws_key = pdf_s3_key(tasks[i])
        /\ catalog[tasks[i].row].aws_html_key = html_s3_key(tasks[i])

\* C7: while the pool works, every started call can take its next step and,
\* when rows wait, some call can step, whatever the other calls did;
\* process_unprocessed_standards returns only once every submitted row has
\* finished, with True or with False.
C7_FailuresAreIsolated ==
    /\ mpc = "pipeline" =>
          /\ \A i \in Running(tasks) : ENABLED Worker(i)
          /\ Queued(tasks) # {} => \E i \in DOMAIN tasks : ENABLED Worker(i)
    /\ h_run.op = "run" => h_run.finished = h_run.total

\* A run of two rows returned with one success and one failure.
C7_Witness ==
    h_run.op = "run" /\ h_run.total = 2 /\ h_run.finished = 2 /\ h_run.successful = 1

\* No other row of the table has the file names of row i.
OnlyRowWithFileNames(i) ==
    \A j \in DOMAIN catalog : j # i => FileName(catalog[j], ".pdf") # FileName(catalog[i], ".pdf")

\* C8: without a reset, an artifact of an entry is uploaded at most once over
\* all runs: once S3, the site and the database work, an upload never puts an
\* object that S3 holds.
C8_UploadedAtMostOnce ==
    [][\A i \in DOMAIN tasks :
          (healthy /\ StepOf(i) /\ OnlyRowWithFileNames(tasks[i].row)) =>
              /\ (tasks[i].pc = "up_pdf" /\ tasks'[i].pc = "up_html") =>
                     pdf_s3_key(tasks[i]) \notin objects
              /\ (tasks[i].pc = "up_html" /\ tasks'[i].pc = "update") =>
                     html_s3_key(tasks[i]) \notin objects]_vars

\* C9: once a row is Complete its two keys stay as they are until a reset
\* unsets them.
C9_KeysSetOnce ==
    [][\A i \in DOMAIN catalog :
          (Complete(catalog[i]) /\ Complete(catalog'[i])) =>
              /\ catalog'[i].aws_key = catalog[i].aws_key
              /\ catalog'[i].aws_html_key = catalog[i].aws_html_key]_vars

UnprocessedRows == {i \in DOMAIN catalog : Unprocessed(catalog[i])}

\* C10: when step 3 of a run starts the pool, the rows submitted are the rows
\* that are Unprocessed, and once the database answers it starts the pool
\* whenever a row is Unprocessed; provided the pipeline stage is reached again
\* and again and the failures end, with S3 in use a row that is Unprocessed is
\* eventually Complete.
C10_RetriedUntilComplete ==
    /\ [][mpc = "step3" =>
             /\ mpc' = "pipeline" =>
                    {tasks'[k].row : k \in DOMAIN tasks'} = UnprocessedRows
             /\ (healthy /\ UnprocessedRows # {}) => mpc' = "pipeline"]_vars
    /\ ([]<>(mpc = "pipeline") /\ <>[]healthy) =>
           \A i \in 1..MaxCatalog :
               (use_s3 /\ i \in DOMAIN catalog /\ Unprocessed(catalog[i]))
                   ~> (i \in DOMAIN catalog /\ Complete(catalog[i]))

\* A row whose PDF an earlier run uploaded, and whose HTML it did not, is in
\* the pool again, past the probes and before its uploads.
C10_Witness ==
    \E i \in DOMAIN tasks :
        /\ tasks[i].pc = "extract"
        /\ OnlyRowWithFileNames(tasks[i].row)
        /\ pdf_s3_key(tasks[i]) \in objects
        /\ html_s3_key(tasks[i]) \notin objects

\* The frame of the sync call just made lacks a key column.
LacksKeyColumn(rec) == rec.op = "sync" /\ KeyColumns \ rec.df.columns # {}

\* C11: a sync call on a frame that lacks one of the three key columns
\* inserts nothing, reports no new record and leaves the table as it was.
C11_MissingKeyColumnRejected ==
    [][LacksKeyColumn(h_sync') => (catalog' = catalog /\ h_sync'.n = 0)]_vars

\* A frame with rows and without a key column was given to a working
\* database whose table holds rows.
C11_Witness ==
    /\ LacksKeyColumn(h_sync)
    /\ h_sync.clean
    /\ h_sync.df.rows # <<>>
    /\ catalog # <<>>

\* C12: with S3 in use, a call of process_standard that returned True, and
\* is counted in `successful`, had its update reported done and left its row
\* with both keys recorded.
C12_SuccessMeansRecorded ==
    use_s3 =>
        \A i \in DOMAIN tasks :
            (tasks[i].pc = "done" /\ tasks[i].result) =>
                /\ tasks[i].wrote
                /\ Complete(catalog[tasks[i].row])

\* C13: with S3 in use, a call of process_standard whose detail fetch failed
\* uploads nothing, returns False and leaves its row Unprocessed.
C13_FetchFailureIsTerminal ==
    use_s3 =>
        \A i \in DOMAIN tasks :
            tasks[i].fetch_failed =>
                /\ ~tasks[i].up_pdf
                /\ ~tasks[i].up_html
                /\ tasks[i].pc = "done" =>
                       /\ ~tasks[i].result
                       /\ Unprocessed(catalog[tasks[i].row])

\* The data rows of the parsed page, in page order, and for the j-th of them
\* the most recent full data row before it.
ParsedDataRows == SelectSeq(parse.soup.trs, IsDataRow)
FullBefore(d, j) == {k \in 1..(j - 1) : Len(d[k]) >= 7}
LastFullBefore(d, j) == d[CHOOSE k \in FullBefore(d, j) : \A m \in FullBefore(d, j) : m <= k]
Lead(r) ==
    <<r.date_of_entry, r.specialty_task_group_area, r.recognition_number,
      r.extent_of_recognition>>

\* C14: a returned extract_table_rows call has made one record per data row of
\* the page, in order, and the record of a 3-cell row has the first four cell
\* texts of the most recent full row before it as its four carried fields and
\* its own three cells as organisation, designation and title; a full row
\* followed by a continuation row gives two records.
C14_ContinuationInheritsFromFullRow ==
    parse.pc = "returned" =>
        LET d == ParsedDataRows
            rows == parse.result.rows
        IN  /\ Len(rows) = Len(d)
            /\ \A j \in DOMAIN d :
                   (Len(d[j]) = 3 /\ FullBefore(d, j) # {}) =>
                       /\ Lead(rows[j]) = SubSeq(row_texts(LastFullBefore(d, j)), 1, 4)
                       /\ rows[j].standards_developing_organization = get_text(d[j][1])
                       /\ rows[j].standard_designation_number_and_date = get_text(d[j][2])
                       /\ rows[j].standard_title = get_text(d[j][3])

\* Every anchor of the parsed page has an href.
AnchorsHaveHref ==
    \A i \in DOMAIN parse.soup.trs :
        \A k \in DOMAIN parse.soup.trs[i] : parse.soup.trs[i][k].anchor # "nohref"

\* C15: on a page whose anchors all have an href, a 3-cell data row with no
\* full row before it does not make extract_table_rows raise; the frame has
\* one row per data row of the page, and the row of that 3-cell row has the
\* empty string in its four carried fields.
C15_EarlyContinuationHasEmptyCarry ==
    (parse.pc # "call" /\ AnchorsHaveHref) =>
        LET d == ParsedDataRows IN
        \A j \in DOMAIN d :
            (Len(d[j]) = 3 /\ FullBefore(d, j) = {}) =>
                /\ parse.pc = "returned"
                /\ Len(parse.df.rows) = Len(d)
                /\ Lead(parse.df.rows[j]) = <<<<>>, <<>>, <<>>, <<>>>>

\* The rows of the parsed page that the call passed over as header rows: those
\* with the cell texts of the template the call returned; and the page
\* without them.
SkippedAsHeader(tds) ==
    /\ Len(tds) > 0
    /\ parse.result.header_template # NoTemplate
    /\ row_texts(tds) = parse.result.header_template
NotSkipped(tds) == ~SkippedAsHeader(tds)
WithoutHeaders == SelectSeq(parse.soup.trs, NotSkipped)
DateRows ==
    {i \in DOMAIN parse.soup.trs :
        \E k \in DOMAIN parse.soup.trs[i] : DateIn(get_text(parse.soup.trs[i][k]))}
YieldsRecord(tds) == Len(tds) >= 7 \/ Len(tds) = 3

\* C16: a returned extract_table_rows call that was given no template returns
\* the cell texts of the first row with "Date" in a cell, and one that was
\* given a template returns it; the rows with those cell texts yield no
\* record and leave carry alone: the records and the final carry are those
\* of the page without these rows, one record per remaining row of 7 or more
\* or of 3 cells.
C16_HeaderRowsSkippedCarryKept ==
    parse.pc = "returned" =>
        LET T == parse.result.header_template
            ref == extract_table_rows(Table(WithoutHeaders), T)
        IN  /\ parse.header_template # NoTemplate => T = parse.header_template
            /\ (parse.header_template = NoTemplate /\ DateRows = {}) => T = NoTemplate
            /\ (parse.header_template = NoTemplate /\ DateRows # {}) =>
                   \E i \in DateRows :
                       /\ \A m \in DateRows : i <= m
                       /\ T = row_texts(parse.soup.trs[i])
            /\ parse.result.rows = ref.rows
            /\ parse.result.carry = ref.carry
            /\ Len(parse.result.rows) = Len(SelectSeq(WithoutHeaders, YieldsRecord))

\* A header row between a full row and a continuation row: two records, and
\* the second carries the full row's first four cells.
C16_Witness ==
    /\ parse.pc = "returned"
    /\ parse.soup.trs = <<FullRow8, HeaderRow, ContRow>>
    /\ Len(parse.result.rows) = 2
    /\ Lead(parse.result.rows[2]) = SubSeq(row_texts(FullRow8), 1, 4)

\* The pass of the loop just made fetched and parsed a page.
PageParsed == crawl'.fetches # crawl.fetches /\ ~crawl'.failed

\* C17: once header_template is set, no later pass of the crawl's loop changes
\* it, and the page of such a pass yields one record per row of 7 or more or
\* of 3 cells whose cell texts differ from the template: the rows passed over
\* as headers are exactly those with the template's cell texts.
C17_HeaderTemplateSetOnce ==
    [][(crawl.header_template # NoTemplate) =>
          /\ crawl'.header_template = crawl.header_template
          /\ PageParsed =>
                 Len(crawl'.page_rows) =
                     Cardinality({i \in DOMAIN crawl'.soup.trs :
                         /\ YieldsRecord(crawl'.soup.trs[i])
                         /\ row_texts(crawl'.soup.trs[i]) # crawl.header_template})]_vars

\* The first page set the template and a later page, parsed with it, had a
\* row with the template's cell texts besides rows that gave records.
C17_Witness ==
    /\ crawl.pc # "idle"
    /\ Len(crawl.fetches) >= 2
    /\ ~crawl.failed
    /\ crawl.assigned = <<1>>
    /\ crawl.page_rows # <<>>
    /\ \E i \in DOMAIN crawl.soup.trs :
           row_texts(crawl.soup.trs[i]) = crawl.header_template

\* a is b with some elements left out.
RECURSIVE IsSubseq(_, _)
IsSubseq(a, b) ==
    IF a = <<>> THEN TRUE
    ELSE IF b = <<>> THEN FALSE
    ELSE IF Head(a) = Head(b) THEN IsSubseq(Tail(a), Tail(b))
    ELSE IsSubseq(a, Tail(b))

\* The titles of a sequence of records, and the titles in the title cells of
\* the rows of 7 or more or of 3 cells of a page, in page order.
Titles(rows) == [i \in DOMAIN rows |-> rows[i].standard_title]
TitleCell(tds) == IF Len(tds) >= 7 THEN tds[7] ELSE tds[3]
RowTitles(soup) ==
    LET rs == SelectSeq(soup.trs, YieldsRecord)
    IN  [i \in DOMAIN rs |-> get_text(TitleCell(rs[i]))]

\* C18: every pass of the crawl's loop requests a higher offset than the
\* passes before it and leaves the records gathered so far in place; the
\* records of the page it parsed come after them, in the order of the rows
\* of the page; and the frame returned has the records in that order.
C18_SourceOrderKept ==
    [][/\ (crawl.pc = "loop" /\ crawl'.pc # "done") =>
             /\ \A k \in DOMAIN crawl.fetches :
                    crawl.fetches[k] < crawl'.fetches[Len(crawl'.fetches)]
             /\ SubSeq(crawl'.all_rows, 1, Len(crawl.all_rows)) = crawl.all_rows
             /\ PageParsed =>
                    /\ crawl'.all_rows = crawl.all_rows \o crawl'.page_rows
                    /\ IsSubseq(Titles(crawl'.page_rows), RowTitles(crawl'.soup))
       /\ crawl'.pc = "done" =>
             /\ crawl'.all_rows = crawl.all_rows
             /\ Titles(crawl'.df.rows) = Titles(crawl.all_rows)]_vars

\* A crawl of two or more pages returned more than a page of records, not
\* all with the same title.
C18_Witness ==
    /\ crawl.pc = "done"
    /\ ~crawl.failed
    /\ Len(crawl.fetches) >= 2
    /\ Len(crawl.df.rows) > PageSize
    /\ crawl.df.rows[1].standard_title # crawl.df.rows[Len(crawl.df.rows)].standard_title

\* A URL with a scheme; and `link` is `href` resolved against the base URL:
\* the href itself when it is a full URL, else the base's scheme and host
\* followed by a path that ends with the href.
IsAbsolute(url) == url # <<>> /\ Head(url) \in Schemes
ResolvedAgainstBase(link, href) ==
    IF IsAbsolute(href) THEN link = href
    ELSE /\ Len(link) >= 2 + Len(href)
         /\ SubSeq(link, 1, 2) = SubSeq(FDA_BASE_URL, 1, 2)
         /\ SubSeq(link, Len(link) - Len(href) + 1, Len(link)) = href

\* The rows of the parsed page that gave the records, in order.
RecordRows == SelectSeq(WithoutHeaders, YieldsRecord)

\* C19 as stated: every record of a returned extract_table_rows call has an
\* absolute URL as title_link, whether or not the title cell of its row holds
\* an anchor.
C19_EveryLinkAbsolute ==
    parse.pc = "returned" =>
        \A j \in DOMAIN parse.result.rows : IsAbsolute(parse.result.rows[j].title_link)

\* C19, amended: the record of a row whose title cell holds an anchor has an
\* absolute URL as title_link, the anchor's href resolved against the base
\* URL; the record of a row whose title cell holds no anchor has the empty
\* string.
C19_LinkAbsoluteOrEmpty ==
    parse.pc = "returned" =>
        /\ Len(parse.result.rows) = Len(RecordRows)
        /\ \A j \in DOMAIN parse.result.rows :
               LET td == TitleCell(RecordRows[j])
                   link == parse.result.rows[j].title_link
               IN  IF td.anchor = "none" THEN link = <<>>
                   ELSE IsAbsolute(link) /\ ResolvedAgainstBase(link, td.href)

\* A full row with a relative href and a continuation row without an anchor.
C19_Witness ==
    /\ parse.pc = "returned"
    /\ parse.soup.trs = <<FullRow, ContRowPlain>>
    /\ Len(parse.result.rows) = 2
    /\ IsAbsolute(parse.result.rows[1].title_link)
    /\ parse.result.rows[1].title_link # FullRow[7].href
    /\ parse.result.rows[2].title_link = <<>>

\* C20: the crawl requests the offsets 1, 1 + PageSize, 1 + 2 * PageSize, ...
\* in that order; it goes on after a page of PageSize records or more and
\* leaves the loop after a page of fewer; and a crawl of a listing of N
\* records in which no fetch and no parse failed returns after
\* N \div PageSize + 1 requests with all N records.
C20_Pagination ==
    crawl.pc # "idle" =>
        /\ \A k \in DOMAIN crawl.fetches : crawl.fetches[k] = 1 + (k - 1) * PageSize
        /\ (crawl.pc = "loop" /\ crawl.fetches # <<>>) => Len(crawl.page_rows) >= PageSize
        /\ (crawl.pc # "loop" /\ ~crawl.failed) => Len(crawl.page_rows) < PageSize
        /\ (crawl.pc = "done" /\ ~crawl.failed) =>
               /\ Len(crawl.fetches) = (crawl.N \div PageSize) + 1
               /\ Len(crawl.df.rows) = crawl.N

\* The pass of the loop just made ended in the except branch.
PassFailed == ~crawl.failed /\ crawl'.failed

\* C21: a pass of the crawl's loop whose fetch or parse raised leaves the loop
\* with the records gathered before it, having requested its offset once;
\* after it the crawl makes no request, only returns, and the frame it returns
\* holds those records.
C21_FailureStopsPagination ==
    /\ [](crawl.pc # "idle" /\ crawl.failed =>
            /\ crawl.pc \in {"break", "done"}
            /\ crawl.pc = "break" => ENABLED CrawlReturn
            /\ crawl.pc = "done" => Titles(crawl.df.rows) = Titles(crawl.all_rows))
    /\ [][/\ PassFailed =>
               /\ crawl'.pc = "break"
               /\ crawl'.all_rows = crawl.all_rows
               /\ crawl'.fetches = Append(crawl.fetches, crawl.start)
               /\ \A k \in DOMAIN crawl.fetches : crawl.fetches[k] < crawl.start
          /\ crawl.failed =>
               /\ crawl'.fetches = crawl.fetches
               /\ crawl'.all_rows = crawl.all_rows]_vars

\* A crawl returned the records of its first page after the parse of a later
\* page raised on a row that followed rows with records.
C21_Witness ==
    /\ crawl.pc = "done"
    /\ crawl.failed
    /\ Len(crawl.fetches) >= 2
    /\ Len(crawl.df.rows) = PageSize
    /\ \E i \in DOMAIN crawl.soup.trs :
           /\ crawl.soup.trs[i] = ContRowNoHref
           /\ \E k \in 1..(i - 1) : YieldsRecord(crawl.soup.trs[k])

\* The natural-key triple of a row.
Triple(r) ==
    <<r.recognition_number, r.standards_developing_organization,
      r.standard_designation_number_and_date>>

\* C22: two rows with equal key triples get the same unique_id, whatever
\* their titles, and a later call on a row gives the id of the first call.
C22_IdentityOfTripleOnly ==
    /\ call.pc \in {"returned", "again"} =>
           (Triple(call.r1) = Triple(call.r2) => call.id1 = call.id2)
    /\ call.pc = "again" => call.again1 = call.id1

\* Two rows with the same triple and different titles, and the second call.
C22_Witness ==
    /\ call.pc = "again"
    /\ Triple(call.r1) = Triple(call.r2)
    /\ call.r1.standard_title # call.r2.standard_title
    /\ call.id1 = call.id2
    /\ call.id1 # NULL

\* No field of the row's triple holds the separator.
SeparatorFree(r) ==
    \A k \in 1..3 : \A i \in DOMAIN Triple(r)[k] : Triple(r)[k][i] # "|"

\* C23 as stated: any two rows with distinct key triples get distinct
\* unique_ids (the hash taken as injective).
C23_DistinctTriplesDistinctIds ==
    call.pc \in {"returned", "again"} =>
        (Triple(call.r1) # Triple(call.r2) => call.id1 # call.id2)

\* C23, amended: two rows with distinct key triples none of whose fields
\* holds the separator "|" get distinct unique_ids (the hash taken as
\* injective).
C23_SeparatorFreeTriplesDistinctIds ==
    call.pc \in {"returned", "again"} =>
        ((/\ Triple(call.r1) # Triple(call.r2)
          /\ SeparatorFree(call.r1)
          /\ SeparatorFree(call.r2)) => call.id1 # call.id2)

\* Two separator-free triples with the same characters in a row, split
\* differently between the first two fields.
C23_Witness ==
    /\ call.pc = "returned"
    /\ SeparatorFree(call.r1)
    /\ SeparatorFree(call.r2)
    /\ Triple(call.r1) # Triple(call.r2)
    /\ Triple(call.r1)[1] \o Triple(call.r1)[2] = Triple(call.r2)[1] \o Triple(call.r2)[2]
    /\ Triple(call.r1)[3] = Triple(call.r2)[3]
    /\ call.id1 # call.id2

\* The rows that the step just made appended to the table.
Appended == SubSeq(catalog', Len(catalog) + 1, Len(catalog'))

\* The rows of the frame of the sync call just made whose identity the table
\* did not hold when the call began.
AbsentRows ==
    SelectSeq(h_sync'.df.rows, LAMBDA r : UniqueIdOf(r) \notin existing_ids(catalog))

\* C24: a sync call whose database calls work, on a frame with the three key
\* columns, leaves the rows of the table in place and appends one row per
\* row of the frame whose identity the table did not hold at the start of
\* the call, in the frame's order, each with aws_key and aws_html_key NULL.
C24_SyncInsertsExactlyTheAbsent ==
    [][(/\ h_sync'.op = "sync"
        /\ h_sync'.clean
        /\ KeyColumns \subseteq h_sync'.df.columns) =>
           /\ Len(catalog') >= Len(catalog)
           /\ SubSeq(catalog', 1, Len(catalog)) = catalog
           /\ Len(Appended) = Len(AbsentRows)
           /\ \A i \in DOMAIN Appended :
                  /\ Appended[i].unique_id = UniqueIdOf(AbsentRows[i])
                  /\ Appended[i].aws_key = NULL
                  /\ Appended[i].aws_html_key = NULL]_vars

\* A key column that holds a key: neither NULL nor the empty string.
HoldsKey(v) == v # NULL /\ v # <<>>
RowsLackingAKey == {i \in DOMAIN catalog : ~HoldsKey(catalog[i].aws_key) \/ ~HoldsKey(catalog[i].aws_html_key)}
RowsWithBothKeys == {i \in DOMAIN catalog : HoldsKey(catalog[i].aws_key) /\ HoldsKey(catalog[i].aws_html_key)}

AllUnset == \A i \in DOMAIN catalog :
    catalog[i].aws_key = NULL /\ catalog[i].aws_html_key = NULL

SubmitsEveryRow ==
    /\ Len(tasks') = Len(catalog)
    /\ \A k \in DOMAIN catalog : tasks'[k].row = k

C26_ResetForcesReprocessing ==
    /\ [](h_run.op = "reset" /\ mpc # "pipeline" => AllUnset)
    /\ [][h_run.op = "reset" /\ mpc = "step3" /\ mpc' = "pipeline"
            => SubmitsEveryRow]_vars

\* A pool after a reset: two tasks, for rows whose objects are in the bucket.
C26_Witness ==
    /\ h_run.op = "reset"
    /\ mpc = "pipeline"
    /\ Len(tasks) = 2
    /\ Len(catalog) = 2
    /\ objects # {}

\* C27: no step of a sync call, a reset or a pipeline run removes a row of the
\* table: every row stays at its place with its identity, so the identities
\* in the table after a step include those before it.
C27_CatalogOnlyGrows ==
    [][/\ Len(catalog) <= Len(catalog')
       /\ \A i \in DOMAIN catalog : catalog'[i].unique_id = catalog[i].unique_id
       /\ existing_ids(catalog) \subseteq existing_ids(catalog')]_vars

\* After a pool has uploaded, a reset and the sync of a later run that
\* inserted one row: the table holds two rows.
C27_Witness ==
    /\ mpc = "step3"
    /\ h_run.op = "reset"
    /\ h_sync.op = "sync"
    /\ h_sync.n = 1
    /\ Len(catalog) = 2
    /\ objects # {}

\* C28: at every moment of a call of process_unprocessed_standards the
\* futures a pool thread is running are at most max_workers, which is
\* min(8, max(2, os.cpu_count() or 4)) and so between 2 and 8, however many
\* rows were submitted.
C28_BoundedConcurrency ==
    /\ Cardinality(Running(tasks)) <= max_workers
    /\ \E c \in PoolCpuCounts :
          max_workers = LET n == IF c = 0 THEN 4 ELSE c
                        IN  IF n < 2 THEN 2 ELSE IF n > 8 THEN 8 ELSE n
    /\ max_workers <= 8
    /\ Cardinality(Running(tasks)) <= 8

\* Two threads, both busy, and a submitted future that waits for one.
C28_Witness ==
    /\ mpc = "pipeline"
    /\ max_workers = 2
    /\ Cardinality(Running(tasks)) = 2
    /\ Queued(tasks) # {}

\* C29: the date in the artifacts of an entry the pipeline has processed is
\* the date found on the detail page when there is one; otherwise the entry's
\* date_of_entry in the table when it has one; "N/A" only when neither is
\* there.
DatePrecedence ==
    LET found == IF call.fetched THEN PageDate(call.page) ELSE NotFound IN
    call.date = IF found # NotFound THEN found
                ELSE IF call.entry.date_of_entry # NULL THEN call.entry.date_of_entry
                ELSE N_A

C29_DatePrecedenceInPipeline ==
    call.pc = "data" /\ call.via = "pipeline" => DatePrecedence

\* C30: within one call of process_unprocessed_standards no two futures that
\* run at the same time have the same local PDF or HTML file or the same
\* S3 key, and so, when S3, the site and the database work, no future
\* returns False.
SharesArtifact(t, u) ==
    \/ pdf_local_path(t) = pdf_local_path(u)
    \/ html_local_path(t) = html_local_path(u)
    \/ pdf_s3_key(t) = pdf_s3_key(u)
    \/ html_s3_key(t) = html_s3_key(u)

C30_WorkersShareNoArtifact ==
    /\ \A i, j \in Running(tasks) : i # j => ~SharesArtifact(tasks[i], tasks[j])
    /\ healthy => \A i \in Finished(tasks) : tasks[i].result

\* C31: a step of process_standard for one row changes aws_key and
\* aws_html_key of that row only; the two fields of every other row of the
\* table stay as they are, also when rows have the same title_link.
SameKeys(i) ==
    /\ catalog'[i].aws_key = catalog[i].aws_key
    /\ catalog'[i].aws_html_key = catalog[i].aws_html_key

C31_PerEntryFrame ==
    [][\A i \in DOMAIN tasks :
          StepOf(i) => \A j \in DOMAIN catalog : j # tasks[i].row => SameKeys(j)]_vars

\* C32: the sync of a run changes no field of a row that was in the table
\* before it: every such row is the same after the step, so a Complete row
\* whose record is crawled again stays Complete with its keys.
C32_SyncFrame ==
    [][mpc = "scraped" =>
          \A i \in DOMAIN catalog : i \in DOMAIN catalog' /\ catalog'[i] = catalog[i]]_vars

\* After a sync that inserted a row: a Complete row whose record was in the
\* crawled frame.
C32_Witness ==
    /\ h_sync.op = "sync"
    /\ h_sync.n = 1
    /\ mpc = "step3"
    /\ \E i \in DOMAIN catalog :
          /\ Complete(catalog[i])
          /\ catalog[i].unique_id \in existing_ids(WithUniqueId(h_sync.df.rows))

\* C33: in every state, both keys recorded in a Complete row of the table
\* are keys of objects that S3 holds.
C33_RecordedKeysAreStored ==
    \A i \in DOMAIN catalog :
        Complete(catalog[i]) =>
            catalog[i].aws_key \in objects /\ catalog[i].aws_html_key \in objects

\* A run is over that left a row Complete with the keys of another row's
\* artifacts.
C33_Witness ==
    /\ h_run.op = "run"
    /\ \E i \in DOMAIN catalog :
          /\ Complete(catalog[i])
          /\ catalog[i].aws_key #
                 S3Prefix \o <<"PDF/">> \o sanitize_filename(FileName(catalog[i], ".pdf"))

\* C34: the new_records that process_fda_standards returns, when the sync
\* succeeded, is the number of rows the call inserted into the table.
C34_NewRecordsIsInserted ==
    (h_sync.op = "sync" /\ h_sync.ok) => new_records(h_sync.df) = h_sync.n

\* C35: a sync whose SELECT of the existing identities failed returns
\* success = False and inserts nothing.
ReadsIdentities(df) == df.rows # <<>> /\ KeyColumns \subseteq df.columns

C35_ReadFailureIsReported ==
    (h_sync.op = "sync" /\ ReadsIdentities(h_sync.df) /\ ~h_sync.read) =>
        ~h_sync.ok /\ h_sync.n = 0

\* C36: a returned extract_table_rows call has made as many records as the
\* page has data rows, that is rows of 7 or more or of 3 cells that are not
\* the table's header, also when a cell text of such a row holds "Date".
C36_NoDataRowLost ==
    parse.pc = "returned" =>
        Len(parse.df.rows) = Cardinality(DataRows(parse.soup))

\* The rows of a page that gave a record, when the call returned `template`.
KeptRows(trs, template) ==
    LET Kept(tds) == YieldsRecord(tds) /\ row_texts(tds) # template
    IN  SelectSeq(trs, Kept)

\* Four None values.
FourNones == <<NULL, NULL, NULL, NULL>>

\* C37: each page starts with an empty carry: on every page the crawl has
\* parsed, the record of a 3-cell row with no full row before it on that
\* page has None in its four carried fields, whatever the pages before held;
\* and the frame the crawl returns has the empty string there.
C37_CarryResetPerPage ==
    /\ [][PageParsed =>
             LET d == KeptRows(crawl'.soup.trs, crawl'.header_template) IN
             /\ Len(crawl'.page_rows) = Len(d)
             /\ \A j \in DOMAIN d :
                    (Len(d[j]) = 3 /\ FullBefore(d, j) = {}) =>
                        Lead(crawl'.page_rows[j]) = FourNones]_vars
    /\ [](crawl.pc = "done" =>
             \A j \in DOMAIN crawl.all_rows :
                 Lead(crawl.all_rows[j]) = FourNones =>
                     Lead(crawl.df.rows[j]) = <<<<>>, <<>>, <<>>, <<>>>>)

\* A later page of a crawl starts with a 3-cell row, after a page that gave
\* the record of a full row.
C37_Witness ==
    /\ crawl.pc # "idle"
    /\ ~crawl.failed
    /\ Len(crawl.fetches) >= 2
    /\ crawl.page_rows # <<>>
    /\ Lead(crawl.page_rows[1]) = FourNones
    /\ Lead(crawl.all_rows[1]) # FourNones

\* C38: a crawl of a listing of N records makes at most N \div PageSize + 1
\* requests, whichever of them fail, and returns.
C38_CrawlTerminates ==
    /\ [](crawl.pc # "idle" => Len(crawl.fetches) <= (crawl.N \div PageSize) + 1)
    /\ <>(crawl.pc = "done")

\* A crawl of the longest listing has returned after a request that failed.
C38_Witness ==
    /\ crawl.pc = "done"
    /\ crawl.N = MaxRecords
    /\ crawl.failed
    /\ Len(crawl.fetches) >= 2

\* C39: when the crawl of a run returns a frame without rows,
\* run_full_pipeline returns False at once: the step leaves the table, the
\* bucket and the pool as they were, no sync was called and the run is over,
\* so a row that was Unprocessed is Unprocessed after the run; and a crawl
\* that returns rows goes on to the sync.
C39_EmptyCrawlEndsRun ==
    [][(mpc = "scrape" /\ mpc' # "scrape") =>
          IF scraped_df'.rows = <<>>
          THEN /\ mpc' = "idle"
               /\ h_run'.result = "False"
               /\ h_sync' = NoSync
               /\ catalog' = catalog /\ objects' = objects /\ tasks' = <<>>
          ELSE mpc' = "scraped"]_vars

\* A run has returned False after an empty crawl, with a row of an earlier
\* run still Unprocessed.
C39_Witness ==
    /\ mpc = "idle"
    /\ h_run.result = "False"
    /\ h_sync = NoSync
    /\ objects # {}
    /\ \E i \in DOMAIN catalog : Unprocessed(catalog[i])

====
